---------------------------- MODULE Spec2Model ----------------------------
(***************************************************************************)
(* A model of vgit/animations/push.py: the simulated repository, the       *)
(* animator, the four lessons, the quiz, practice mode and main().         *)
(*                                                                         *)
(* Console output is the sequence `out` of printed events; every           *)
(* time.sleep of the animator is recorded in `pauses`.  Durations are in   *)
(* units of 1/9000 s, so that 0.5 s and 0.03 s stay integers when divided  *)
(* by the speed (3) and by 3 again (push_animation).                       *)
(***************************************************************************)
EXTENDS Integers, Sequences, FiniteSets, TLC

\* ------------------------------------------------------------------ bounds

\* most blanks typed around a quiz answer
MaxPad == 1
\* largest step count handed to progress_bar in the stand-alone bar runs
MaxSteps == 50
\* longest commit list of a branch in the stand-alone visualization runs
MaxCommits == 4

\* ------------------------------------------------------- program constants

\* GitAnimator.__init__: self.delay = 0.5 / speed      (0.5 s = 4500 units)
BaseDelay == 4500
\* GitAnimator.typewriter: time.sleep(0.03 / self.speed)  (0.03 s = 270 units)
TypewriterBase == 270
\* GitAnimator.__init__: speed: float = 1.0
DefaultSpeed == 1
\* main: system.animator.speed = 3.0
FastSpeed == 3
\* GitAnimator.progress_bar: bar_length = 30
bar_length == 30
\* GitLearningSystem.__init__: self.total_lessons = 10
total_lessons == 10
\* GitLearningSystem.show_progress: bar_length = 20
progress_bar_length == 20
\* IEEE-754 binary64 significand width (Python float)
MantissaBits == 53

\* ------------------------------------------------- Python float arithmetic
\* A bit string is a sequence of 0/1, most significant bit first.

Zeros(n) == [k \in 1..n |-> 0]

Max(a, b) == IF a >= b THEN a ELSE b

RECURSIVE BitsVal(_)
BitsVal(b) == IF Len(b) = 0 THEN 0
              ELSE 2 * BitsVal(SubSeq(b, 1, Len(b) - 1)) + b[Len(b)]

StripZeros(b) ==
    IF \A k \in 1..Len(b) : b[k] = 0 THEN <<>>
    ELSE LET first == CHOOSE k \in 1..Len(b) :
                          b[k] = 1 /\ \A l \in 1..(k - 1) : b[l] = 0
         IN  SubSeq(b, first, Len(b))

\* binary addition of two bit strings of the same length n, as a carry
\* look-ahead: there is a carry into position k when some lower position
\* generates one and every position in between propagates it
AddSame(a, b, n) ==
    LET carry(k) == \E g \in (k + 1)..n :
                        /\ a[g] = 1 /\ b[g] = 1
                        /\ \A l \in (k + 1)..(g - 1) : a[l] + b[l] >= 1
        bit(k) == (a[k] + b[k] + (IF carry(k) THEN 1 ELSE 0)) % 2
    IN  (IF carry(0) THEN <<1>> ELSE <<>>) \o [k \in 1..n |-> bit(k)]

Add(a, b) ==
    LET n == Max(Len(a), Len(b))
    IN  AddSame(Zeros(n - Len(a)) \o a, Zeros(n - Len(b)) \o b, n)

Inc(b) == Add(b, <<1>>)

\* the exact product of the bit string m and the integer c >= 0
RECURSIVE MulSmall(_, _)
MulSmall(m, c) ==
    IF c = 0 THEN <<>>
    ELSE LET twice == MulSmall(m, c \div 2) \o <<0>>
         IN  IF c % 2 = 1 THEN Add(twice, m) ELSE twice

\* 2^j mod d, by repeated squaring
RECURSIVE Pow2Mod(_, _)
Pow2Mod(j, d) ==
    IF j = 0 THEN 1 % d
    ELSE LET h == Pow2Mod(j \div 2, d)
         IN  (h * h * (IF j % 2 = 1 THEN 2 ELSE 1)) % d

\* the remainder left after j steps of the long division r/d (0 <= r < d)
DivRem(r, d, j) == (r * Pow2Mod(j, d)) % d

\* the first n fractional bits of r/d (0 <= r < d) and the remainder left
DivBits(r, d, n) ==
    [bits |-> [j \in 1..n |-> IF 2 * DivRem(r, d, j - 1) >= d THEN 1 ELSE 0],
     rem  |-> DivRem(r, d, n)]

\* zero bits before the first one bit of r/d (0 < r < d)
RECURSIVE LeadingZeros(_, _)
LeadingZeros(r, d) == IF 2 * r >= d THEN 0 ELSE 1 + LeadingZeros(2 * r, d)

\* round-half-to-even of a significand, given the first dropped bit and
\* whether anything nonzero follows it
RoundNearestEven(m, guard, sticky) ==
    IF guard = 1 /\ (sticky \/ m[Len(m)] = 1) THEN Inc(m) ELSE m

\* a float is [m: significand bits, ulp: k], its value BitsVal(m) * 2^-k

\* i / n for integers 0 < i < n, correctly rounded to a float
FloatDiv(i, n) ==
    LET z == LeadingZeros(i, n)
        q == DivBits(i, n, z + MantissaBits + 1)
        m == SubSeq(q.bits, z + 1, z + MantissaBits)
    IN  [m   |-> RoundNearestEven(m, q.bits[z + MantissaBits + 1], q.rem # 0),
         ulp |-> z + MantissaBits]

\* float x times the integer c (converted exactly), correctly rounded
FloatMul(x, c) ==
    LET p == StripZeros(MulSmall(x.m, c))
        d == Len(p) - MantissaBits
    IN  IF d <= 0 THEN [m |-> p, ulp |-> x.ulp]
        ELSE [m   |-> RoundNearestEven(SubSeq(p, 1, MantissaBits),
                                       p[MantissaBits + 1],
                                       \E k \in (MantissaBits + 2)..Len(p) : p[k] = 1),
              ulp |-> x.ulp - d]

\* int(x) for a float x >= 0 with x.ulp >= 0: truncation
FloatInt(x) ==
    IF Len(x.m) <= x.ulp THEN 0
    ELSE BitsVal(SubSeq(x.m, 1, Len(x.m) - x.ulp))

\* int((i / n) * c), as in `int(progress * 100)` with progress = i / steps,
\* for 0 <= i <= n, n > 0
FloatMulFloor(i, n, c) ==
    IF i = 0 THEN 0
    ELSE IF i = n THEN c
    ELSE FloatInt(FloatMul(FloatDiv(i, n), c))

\* ------------------------------------------------------------ Python values
\* A str is a sequence of one-character strings where the code looks inside
\* it (quiz answers, practice commands, argv[2]); other text is a TLA+ string.

\* str.lower() on the characters of the model's alphabet
LowerChar(c) == CASE c = "A" -> "a" [] c = "B" -> "b" [] OTHER -> c

Lower(s) == [k \in 1..Len(s) |-> LowerChar(s[k])]

IsSpace(c) == c = " "

\* str.strip(): leading and trailing whitespace removed
Strip(s) ==
    IF \A k \in 1..Len(s) : IsSpace(s[k]) THEN <<>>
    ELSE LET first == CHOOSE k \in 1..Len(s) :
                          ~IsSpace(s[k]) /\ \A l \in 1..(k - 1) : IsSpace(s[l])
             last  == CHOOSE k \in 1..Len(s) :
                          ~IsSpace(s[k]) /\ \A l \in (k + 1)..Len(s) : IsSpace(s[l])
         IN  SubSeq(s, first, last)

\* `sub in s`
Contains(sub, s) ==
    \E k \in 0..(Len(s) - Len(sub)) : SubSeq(s, k + 1, k + Len(sub)) = sub

Reverse(s) == [k \in 1..Len(s) |-> s[Len(s) - k + 1]]

\* s[-n:]
LastN(s, n) == IF Len(s) > n THEN SubSeq(s, Len(s) - n + 1, Len(s)) ELSE s

Digits == <<"0", "1", "2", "3", "4", "5", "6", "7", "8", "9">>

IsDigit(c) == \E d \in 1..10 : Digits[d] = c

DigitVal(c) == (CHOOSE d \in 1..10 : Digits[d] = c) - 1

RECURSIVE DigitsVal(_)
DigitsVal(t) == IF Len(t) = 0 THEN 0
                ELSE 10 * DigitsVal(SubSeq(t, 1, Len(t) - 1)) + DigitVal(t[Len(t)])

\* int(text): an optional sign and decimal digits; anything else is a ValueError
IntParses(t) ==
    LET body == IF Len(t) > 0 /\ t[1] \in {"-", "+"} THEN Tail(t) ELSE t
    IN  Len(body) > 0 /\ \A k \in 1..Len(body) : IsDigit(body[k])

IntOf(t) ==
    IF t[1] = "-" THEN 0 - DigitsVal(Tail(t))
    ELSE IF t[1] = "+" THEN DigitsVal(Tail(t))
    ELSE DigitsVal(t)

\* the decimal text of an integer, as typed on the command line
RECURSIVE NatText(_)
NatText(n) == IF n < 10 THEN <<Digits[n + 1]>>
              ELSE NatText(n \div 10) \o <<Digits[(n % 10) + 1]>>

IntText(n) == IF n < 0 THEN <<"-">> \o NatText(0 - n) ELSE NatText(n)

\* a dict is the sequence of its items [key, val] in insertion order
HasKey(d, k) == \E j \in 1..Len(d) : d[j].key = k

\* d[k], for a key that is present
Lookup(d, k) == d[CHOOSE j \in 1..Len(d) : d[j].key = k].val

\* d[k] = v: a present key keeps its place, a new one goes last
Store(d, k, v) ==
    IF HasKey(d, k)
    THEN [j \in 1..Len(d) |-> IF d[j].key = k THEN [key |-> k, val |-> v] ELSE d[j]]
    ELSE Append(d, [key |-> k, val |-> v])

Keys(d) == [j \in 1..Len(d) |-> d[j].key]

\* branches[k] on the plain dict of GitRepository.__init__: a missing key is a
\* KeyError and the dict stays as it is.  (A defaultdict would insert an
\* empty branch instead.)
defaultdict_getitem(d, h, k) ==
    IF HasKey(d, k) THEN [error |-> FALSE, branches |-> d, heap |-> h]
    ELSE [error    |-> FALSE,
          branches |-> Append(d, [key |-> k,
                                  val |-> [name |-> k, commits |-> Len(h) + 1,
                                           is_current |-> FALSE]]),
          heap     |-> Append(h, <<>>)]

dict_getitem(d, h, k) == [error |-> ~HasKey(d, k), branches |-> d, heap |-> h]

\* list.copy(): a new list object holding the same items
list_alias(h, ref) == [heap |-> h, ref |-> ref]

list_copy(h, ref) == [heap |-> Append(h, h[ref]), ref |-> Len(h) + 1]

\* a new list object
list_new(h, items) == [heap |-> Append(h, items), ref |-> Len(h) + 1]

\* --------------------------------------------------------------- the state

VARIABLES
    pc,                 \* where the program is
    in_course,          \* inside run_full_course's try block
    argv,               \* sys.argv[1:]
    repo,               \* GitLearningSystem.repo
    heap,               \* the list objects holding commits, by reference
    animator,           \* GitLearningSystem.animator: [speed, delay]
    lessons_completed,  \* GitLearningSystem.lessons_completed
    frame,              \* local variables of the running methods
    out,                \* what has been printed, in order
    pauses,             \* the time.sleep calls made, as [kind, dur]
    inputs,             \* the lines read at the quiz prompts, in order
    raised,             \* the exception raised, "none" if none was
    exc                 \* the exception that left main(), "none" if none did

vars == <<pc, in_course, argv, repo, heap, animator, lessons_completed, frame,
          out, pauses, inputs, raised, exc>>

\* time.sleep(2) in welcome, time.sleep(1) in lesson_branching and
\* time.sleep(2) in interactive_quiz, in units of 1/9000 s
WelcomePause == 18000
BranchingPause == 9000
QuizPause == 18000

\* random.choices("abcdef0123456789", k=7): two of the possible hashes
Hashes == {"a1b2c3d", "0f9e8d7"}

\* time.strftime("%Y-%m-%d %H:%M:%S"): the clock's reading
Timestamps == {"2026-11-01 10:00:00"}

Author == "Student <student@example.com>"

\* @dataclass Commit
Commit(hash, message, author, timestamp) ==
    [hash |-> hash, message |-> message, author |-> author, timestamp |-> timestamp]

\* @dataclass Branch; commits is a reference into the heap
Branch(name, commits, is_current) ==
    [name |-> name, commits |-> commits, is_current |-> is_current]

\* GitRepository.__init__
GitRepository(name) ==
    [name           |-> name,
     branches       |-> <<>>,
     current_branch |-> "main",
     staged_files   |-> <<>>,
     working_files  |-> <<>>,
     remote_url     |-> <<"https://github.com/user/", name, ".git">>,
     is_initialized |-> FALSE]

\* GitAnimator.__init__: the delay is computed here, once, from the speed
GitAnimator(speed) == [speed |-> speed, delay |-> BaseDelay \div speed]

NoFrame ==
    [score |-> 0, i |-> 0, quiz_score |-> 0, cmd_i |-> 0, bar_i |-> 0,
     steps |-> 0, ret |-> "none", feature_commits |-> <<>>, commit_count |-> 0]

\* The class body of GitLearningSystem prints the diff block when the module
\* is loaded: the print calls after simulate_diff's docstring are indented as
\* statements of the class, not of the method.
ClassBodyOutput == <<[ev |-> "diff_block"]>>

\* a console is [out, pauses]; the animator's methods take one and return one
Console(o, p) == [out |-> o, pauses |-> p]

print(c, e) == [c EXCEPT !.out = Append(@, e)]

sleep(c, kind, dur) == [c EXCEPT !.pauses = @ \cup {[kind |-> kind, dur |-> dur]}]

\* GitAnimator.typewriter: every text of the program is non-empty
typewriter(c, a, text) ==
    sleep(print(c, [ev |-> "typewriter", text |-> text]),
          "typewriter", TypewriterBase \div a.speed)

\* GitAnimator.commit_flow
commit_flow(c, a, commit) ==
    LET c1 == sleep(print(c, [ev |-> "creating_commit"]), "commit_flow", a.delay)
        c2 == print(c1, [ev |-> "commit", hash |-> commit.hash, author |-> commit.author,
                         timestamp |-> commit.timestamp, message |-> commit.message])
        c3 == [c2 EXCEPT !.out = @ \o <<[ev |-> "stage", stage |-> "Working Directory"],
                                        [ev |-> "stage", stage |-> "Staging Area"],
                                        [ev |-> "stage", stage |-> "Local Repository"]>>]
    IN  sleep(c3, "commit_flow", a.delay)

\* GitAnimator.branch_visualization: the recent commits of one branch
recent_first3(commits) == Reverse(IF Len(commits) > 3 THEN SubSeq(commits, 1, 3) ELSE commits)

recent_commits(commits) == Reverse(LastN(commits, 3))

CommitLines(commits) ==
    [k \in 1..Len(commits) |->
        [ev |-> "commit_line", hash |-> commits[k].hash, message |-> commits[k].message]]

\* GitAnimator.branch_visualization: the lines for branches j.. of the dict
RECURSIVE BranchLines(_, _, _, _)
BranchLines(branches, current, h, j) ==
    IF j > Len(branches) THEN <<>>
    ELSE <<[ev |-> "branch", name |-> branches[j].key,
            current |-> (branches[j].key = current)]>>
         \o CommitLines(recent_commits(h[branches[j].val.commits]))
         \o BranchLines(branches, current, h, j + 1)

branch_visualization(r, h) ==
    <<[ev |-> "repository", name |-> r.name]>>
    \o BranchLines(r.branches, r.current_branch, h, 1)

\* run_full_course's except clauses: which one takes the exception
ExceptionClasses == {"KeyError", "EOFError", "ZeroDivisionError", "ValueError", "IndexError"}

handler_without_interrupt(e) == IF e \in ExceptionClasses THEN "error" ELSE "uncaught"

run_full_course_handler(e) ==
    IF e = "KeyboardInterrupt" THEN "interrupted"
    ELSE IF e \in ExceptionClasses THEN "error"
    ELSE "uncaught"

\* exception e is raised with console output o already written
Raise(e, o) ==
    LET h == IF in_course THEN run_full_course_handler(e) ELSE "uncaught"
    IN  /\ raised' = e
        /\ in_course' = FALSE
        /\ IF h = "uncaught"
           THEN pc' = "crashed" /\ exc' = e /\ out' = o
           ELSE /\ pc' = "done"
                /\ exc' = "none"
                /\ out' = Append(o, IF h = "interrupted" THEN [ev |-> "interrupted"]
                                    ELSE [ev |-> "error", exc |-> e])

\* where a lesson returns to
lessons == <<"lesson_init", "lesson_add_commit", "lesson_branching", "lesson_push">>

AfterLesson(n) ==
    IF in_course THEN (IF n < Len(lessons) THEN lessons[n + 1] ELSE "interactive_quiz")
    ELSE "done"

Init ==
    /\ pc = "start"
    /\ in_course = FALSE
    /\ argv = <<>>
    /\ repo = GitRepository("my-project")
    /\ heap = <<>>
    /\ animator = GitAnimator(DefaultSpeed)
    /\ lessons_completed = 0
    /\ frame = NoFrame
    /\ out = ClassBodyOutput
    /\ pauses = {}
    /\ inputs = <<>>
    /\ raised = "none"
    /\ exc = "none"

\* ------------------------------------------------------------------ main()

\* largest |N| typed after --lesson
MaxLessonArg == 6

LessonArgs == {IntText(n) : n \in (0 - MaxLessonArg)..MaxLessonArg} \cup {<<"x">>}

Argvs ==
    {<<>>, <<"--fast">>, <<"--lesson">>, <<"--help">>}
        \cup {<<"--lesson", t>> : t \in LessonArgs}

\* main: `if 1 <= lesson_num <= len(lessons)`
range_without_lower_bound(lesson_num) == lesson_num <= Len(lessons)

lesson_in_range(lesson_num) == 1 <= lesson_num /\ lesson_num <= Len(lessons)

\* list[idx] as Python indexes a list of n items: 0 when idx is out of range
PyIndex(n, idx) ==
    IF 0 <= idx /\ idx < n THEN idx + 1
    ELSE IF 0 - n <= idx /\ idx < 0 THEN idx + n + 1
    ELSE 0

\* main(): the command line is read and the mode entered
main ==
    /\ pc = "start"
    /\ \E a \in Argvs :
        /\ argv' = a
        /\ UNCHANGED <<repo, heap, lessons_completed, frame, pauses, inputs>>
        /\ IF Len(a) = 0 \/ a[1] = "--fast"
           THEN \* run_full_course; --fast sets the speed after construction
                /\ animator' = IF Len(a) = 0 THEN animator
                               ELSE [animator EXCEPT !.speed = FastSpeed]
                /\ in_course' = TRUE
                /\ pc' = "welcome"
                /\ UNCHANGED <<out, raised, exc>>
           ELSE IF a[1] = "--lesson"
           THEN /\ animator' = animator
                /\ IF Len(a) > 1 /\ ~IntParses(a[2])
                   THEN Raise("ValueError", out)
                   ELSE LET lesson_num == IF Len(a) > 1 THEN IntOf(a[2]) ELSE 1
                            at == PyIndex(Len(lessons), lesson_num - 1)
                        IN  IF lesson_in_range(lesson_num)
                            THEN IF at = 0
                                 THEN Raise("IndexError", out)
                                 ELSE /\ pc' = lessons[at]
                                      /\ UNCHANGED <<in_course, out, raised, exc>>
                            ELSE /\ out' = Append(out, [ev |-> "lesson_not_found",
                                                        n |-> lesson_num,
                                                        available |-> Len(lessons)])
                                 /\ pc' = "done"
                                 /\ UNCHANGED <<in_course, raised, exc>>
           ELSE /\ animator' = animator
                /\ out' = Append(out, [ev |-> "usage"])
                /\ pc' = "done"
                /\ UNCHANGED <<in_course, raised, exc>>

\* ------------------------------------------------- GitAnimator.progress_bar

\* one frame of progress_bar's loop: `for i in range(steps + 1)`
progress_bar_frame ==
    /\ pc = "progress_bar"
    /\ frame.bar_i <= frame.steps
    /\ UNCHANGED <<argv, repo, heap, animator, lessons_completed, inputs>>
    /\ IF frame.steps = 0
       THEN \* progress = i / steps
            /\ Raise("ZeroDivisionError", out)
            /\ UNCHANGED <<frame, pauses>>
       ELSE /\ out' = Append(out, [ev      |-> "bar",
                                   filled  |-> FloatMulFloor(frame.bar_i, frame.steps, bar_length),
                                   percent |-> FloatMulFloor(frame.bar_i, frame.steps, 100)])
            /\ pauses' = pauses \cup {[kind |-> "progress_bar", dur |-> animator.delay]}
            /\ frame' = [frame EXCEPT !.bar_i = @ + 1]
            /\ UNCHANGED <<pc, in_course, raised, exc>>

\* the loop is over: the closing print(), and the return to the caller
progress_bar_end ==
    /\ pc = "progress_bar"
    /\ frame.bar_i > frame.steps
    /\ out' = Append(out, [ev |-> "newline"])
    /\ pc' = frame.ret
    /\ UNCHANGED <<in_course, argv, repo, heap, animator, lessons_completed, frame,
                   pauses, inputs, raised, exc>>

\* a call of progress_bar(steps, ...) that returns to pc `ret`
CallProgressBar(steps, ret) ==
    /\ frame' = [frame EXCEPT !.bar_i = 0, !.steps = steps, !.ret = ret]
    /\ pc' = "progress_bar"

\* ------------------------------------------------------------- the lessons

\* GitLearningSystem.welcome
welcome ==
    /\ pc = "welcome"
    /\ out' = Append(out, [ev |-> "welcome"])
    /\ pauses' = pauses \cup {[kind |-> "welcome", dur |-> WelcomePause]}
    /\ pc' = "lesson_init"
    /\ UNCHANGED <<in_course, argv, repo, heap, animator, lessons_completed, frame,
                   inputs, raised, exc>>

\* lesson_init, up to its progress bar
lesson_init ==
    /\ pc = "lesson_init"
    /\ LET c == print(typewriter(print(Console(out, pauses), [ev |-> "lesson", n |-> 1]),
                                 animator, "Let's create your first Git repository!"),
                      [ev |-> "command", text |-> "git init"])
       IN  out' = c.out /\ pauses' = c.pauses
    /\ CallProgressBar(5, "lesson_init_created")
    /\ UNCHANGED <<in_course, argv, repo, heap, animator, lessons_completed,
                   inputs, raised, exc>>

\* lesson_init, after its progress bar: the repository is created
lesson_init_created ==
    /\ pc = "lesson_init_created"
    /\ LET l == list_new(heap, <<>>)
       IN  /\ heap' = l.heap
           /\ repo' = [repo EXCEPT !.is_initialized = TRUE,
                                   !.branches = Store(@, "main", Branch("main", l.ref, TRUE))]
    /\ out' = Append(out, [ev |-> "initialized", name |-> repo.name])
    /\ lessons_completed' = lessons_completed + 1
    /\ pc' = AfterLesson(1)
    /\ UNCHANGED <<in_course, argv, animator, frame, pauses, inputs, raised, exc>>

files == <<"README.md", "main.py", "requirements.txt">>

\* lesson_add_commit, up to its progress bar
lesson_add_commit ==
    /\ pc = "lesson_add_commit"
    /\ repo' = [repo EXCEPT !.working_files = @ \o files]
    /\ LET c0 == typewriter(print(Console(out, pauses), [ev |-> "lesson", n |-> 2]),
                            animator, "Files created in working directory:")
           c1 == [c0 EXCEPT !.out = @ \o [k \in 1..Len(files) |->
                                            [ev |-> "file", name |-> files[k]]]]
           c2 == print(c1, [ev |-> "command", text |-> "git add ."])
       IN  out' = c2.out /\ pauses' = c2.pauses
    /\ CallProgressBar(3, "lesson_add_commit_staged")
    /\ UNCHANGED <<in_course, argv, heap, animator, lessons_completed, inputs, raised, exc>>

\* lesson_add_commit, after its progress bar: the files are staged and the
\* commit is created, shown and appended to main
lesson_add_commit_staged ==
    /\ pc = "lesson_add_commit_staged"
    /\ \E hash \in Hashes, timestamp \in Timestamps :
        LET commit == Commit(hash, "Initial commit", Author, timestamp)
            c == commit_flow(print(Console(out, pauses),
                                   [ev |-> "command", text |-> "git commit -m \"Initial commit\""]),
                             animator, commit)
            g == dict_getitem(repo.branches, heap, "main")
        IN  /\ pauses' = c.pauses
            /\ IF ~g.error
               THEN /\ heap' = [g.heap EXCEPT ![Lookup(g.branches, "main").commits] =
                                                  Append(@, commit)]
                    /\ repo' = [repo EXCEPT !.staged_files = files,
                                            !.branches = g.branches]
                    /\ out' = c.out
                    /\ lessons_completed' = lessons_completed + 1
                    /\ pc' = AfterLesson(2)
                    /\ UNCHANGED <<in_course, raised, exc>>
               ELSE \* self.repo.branches["main"]
                    /\ repo' = [repo EXCEPT !.staged_files = files]
                    /\ Raise("KeyError", c.out)
                    /\ UNCHANGED <<heap, lessons_completed>>
    /\ UNCHANGED <<argv, animator, frame, inputs>>

\* lesson_branching, up to the loop over the two new commits
lesson_branching ==
    /\ pc = "lesson_branching"
    /\ LET c0 == typewriter(print(print(Console(out, pauses), [ev |-> "lesson", n |-> 3]),
                                  [ev |-> "command", text |-> "git branch feature-auth"]),
                            animator, "Creating new branch 'feature-auth'...")
           g  == dict_getitem(repo.branches, heap, "main")
       IN  IF ~g.error
           THEN \E h1 \in Hashes, h2 \in Hashes, t1 \in Timestamps, t2 \in Timestamps :
                LET l == list_copy(g.heap, Lookup(g.branches, "main").commits)
                    c1 == typewriter(print(c0, [ev |-> "command",
                                                text |-> "git checkout feature-auth"]),
                                     animator, "Switching to branch 'feature-auth'...")
                IN  /\ heap' = l.heap
                    /\ repo' = [repo EXCEPT
                                  !.branches = Store(g.branches, "feature-auth",
                                                     Branch("feature-auth", l.ref, FALSE)),
                                  !.current_branch = "feature-auth"]
                    /\ frame' = [frame EXCEPT !.feature_commits =
                                   <<Commit(h1, "Add login functionality", Author, t1),
                                     Commit(h2, "Add password validation", Author, t2)>>]
                    /\ out' = c1.out
                    /\ pauses' = c1.pauses
                    /\ pc' = "lesson_branching_commit"
                    /\ UNCHANGED <<in_course, raised, exc>>
           ELSE \* self.repo.branches["main"]
                /\ pauses' = c0.pauses
                /\ Raise("KeyError", c0.out)
                /\ UNCHANGED <<heap, repo, frame>>
    /\ UNCHANGED <<argv, animator, lessons_completed, inputs>>

\* one turn of lesson_branching's loop `for commit in feature_commits`
lesson_branching_commit ==
    /\ pc = "lesson_branching_commit"
    /\ frame.feature_commits # <<>>
    /\ LET commit == Head(frame.feature_commits)
           c == commit_flow(sleep(Console(out, pauses), "lesson_branching", BranchingPause),
                            animator, commit)
       IN  /\ out' = c.out
           /\ pauses' = c.pauses
           /\ heap' = [heap EXCEPT ![Lookup(repo.branches, "feature-auth").commits] =
                                       Append(@, commit)]
    /\ frame' = [frame EXCEPT !.feature_commits = Tail(@)]
    /\ UNCHANGED <<pc, in_course, argv, repo, animator, lessons_completed, inputs,
                   raised, exc>>

\* lesson_branching, after the loop
lesson_branching_shown ==
    /\ pc = "lesson_branching_commit"
    /\ frame.feature_commits = <<>>
    /\ out' = out \o branch_visualization(repo, heap)
    /\ lessons_completed' = lessons_completed + 1
    /\ pc' = AfterLesson(3)
    /\ UNCHANGED <<in_course, argv, repo, heap, animator, frame, pauses, inputs,
                   raised, exc>>

\* lesson_push and push_animation, up to the connection progress bar
lesson_push ==
    /\ pc = "lesson_push"
    /\ LET c0 == print(typewriter(print(Console(out, pauses), [ev |-> "lesson", n |-> 4]),
                                  animator, "Remote repository"),
                       [ev |-> "command", text |-> "git push origin", branch |-> repo.current_branch])
           g  == dict_getitem(repo.branches, heap, repo.current_branch)
       IN  IF ~g.error
           THEN LET commit_count ==
                        Len(g.heap[Lookup(g.branches, repo.current_branch).commits])
                IN  /\ out' = Append(c0.out, [ev |-> "pushing", commits |-> commit_count,
                                              remote |-> "origin",
                                              branch |-> repo.current_branch])
                    /\ pauses' = c0.pauses
                    /\ repo' = [repo EXCEPT !.branches = g.branches]
                    /\ heap' = g.heap
                    /\ frame' = [frame EXCEPT !.commit_count = commit_count, !.bar_i = 0,
                                              !.steps = 3, !.ret = "push_animation_upload"]
                    /\ pc' = "progress_bar"
                    /\ UNCHANGED <<in_course, raised, exc>>
           ELSE \* self.repo.branches[self.repo.current_branch]
                /\ pauses' = c0.pauses
                /\ Raise("KeyError", c0.out)
                /\ UNCHANGED <<frame, repo, heap>>
    /\ UNCHANGED <<argv, animator, lessons_completed, inputs>>

\* push_animation's upload phase and success lines, then lesson_push's end
push_animation_upload ==
    /\ pc = "push_animation_upload"
    /\ out' = out \o [k \in 1..frame.commit_count |->
                        [ev |-> "uploading", k |-> k, of |-> frame.commit_count]]
                  \o <<[ev |-> "push_completed", remote |-> "origin",
                        branch |-> repo.current_branch]>>
    /\ pauses' = IF frame.commit_count > 0
                 THEN pauses \cup {[kind |-> "push_animation", dur |-> animator.delay \div 3]}
                 ELSE pauses
    /\ lessons_completed' = lessons_completed + 1
    /\ pc' = AfterLesson(4)
    /\ UNCHANGED <<in_course, argv, repo, heap, animator, frame, inputs, raised, exc>>

\* ------------------------------------------------------- quiz and practice

\* what is typed at a quiz prompt: nothing or one of the letters a, b, B,
\* with up to MaxPad blanks before and after it
Answers == {<<>>, <<"a">>, <<"b">>, <<"B">>}

Blanks(n) == [k \in 1..n |-> " "]

InputLines ==
    {Blanks(p[1]) \o a \o Blanks(p[2]) :
        p \in {q \in (0..MaxPad) \X (0..MaxPad) : q[1] + q[2] <= MaxPad},
        a \in Answers}

\* input(): a line, or EOFError at the end of the input
StdinReads ==
    {[eof |-> FALSE, line |-> l] : l \in InputLines} \cup {[eof |-> TRUE, line |-> <<>>]}

questions ==
    <<[question    |-> "What command initializes a new Git repository?",
       options     |-> <<"a) git start", "b) git init", "c) git create", "d) git new">>,
       correct     |-> <<"b">>,
       explanation |-> "git init creates a new Git repository in the current directory."],
      [question    |-> "What's the correct order for adding and committing files?",
       options     |-> <<"a) commit, then add", "b) add, then commit",
                         "c) push, then add", "d) merge, then commit">>,
       correct     |-> <<"b">>,
       explanation |-> "Files must be staged with 'git add' before they can be committed with 'git commit'."]>>

\* interactive_quiz: input(...).lower().strip()
answer_unnormalized(line) == line

answer_of(line) == Strip(Lower(line))

\* interactive_quiz, before its loop
interactive_quiz ==
    /\ pc = "interactive_quiz"
    /\ out' = Append(out, [ev |-> "quiz"])
    /\ frame' = [frame EXCEPT !.score = 0, !.i = 1]
    /\ pc' = "quiz_question"
    /\ UNCHANGED <<in_course, argv, repo, heap, animator, lessons_completed, pauses,
                   inputs, raised, exc>>

\* one turn of interactive_quiz's loop: the question, the answer read, the
\* verdict and the explanation
quiz_question ==
    /\ pc = "quiz_question"
    /\ frame.i <= Len(questions)
    /\ \E r \in StdinReads :
        LET q  == questions[frame.i]
            o1 == Append(out, [ev |-> "question", i |-> frame.i, options |-> q.options])
        IN  IF r.eof
            THEN /\ Raise("EOFError", o1)
                 /\ UNCHANGED <<frame, pauses, inputs>>
            ELSE LET right == answer_of(r.line) = q.correct
                 IN  /\ out' = o1 \o <<[ev |-> IF right THEN "correct" ELSE "incorrect",
                                        i |-> frame.i],
                                       [ev |-> "explanation", i |-> frame.i]>>
                     /\ frame' = [frame EXCEPT !.score = IF right THEN @ + 1 ELSE @,
                                               !.i = @ + 1]
                     /\ pauses' = pauses \cup {[kind |-> "interactive_quiz", dur |-> QuizPause]}
                     /\ inputs' = Append(inputs, r.line)
                     /\ UNCHANGED <<pc, in_course, raised, exc>>
    /\ UNCHANGED <<argv, repo, heap, animator, lessons_completed>>

\* interactive_quiz, after its loop: the score is printed and returned
quiz_score_returned ==
    /\ pc = "quiz_question"
    /\ frame.i > Len(questions)
    /\ out' = Append(out, [ev |-> "quiz_score", score |-> frame.score, of |-> Len(questions)])
    /\ frame' = [frame EXCEPT !.quiz_score = frame.score]
    /\ pc' = "practice_mode"
    /\ UNCHANGED <<in_course, argv, repo, heap, animator, lessons_completed, pauses,
                   inputs, raised, exc>>

commands_to_practice ==
    <<<<"g", "i", "t", " ", "s", "t", "a", "t", "u", "s">>,
      <<"g", "i", "t", " ", "l", "o", "g", " ", "-", "-", "o", "n", "e", "l", "i", "n", "e">>,
      <<"g", "i", "t", " ", "b", "r", "a", "n", "c", "h", " ", "-", "a">>,
      <<"g", "i", "t", " ", "d", "i", "f", "f">>>>

\* practice_mode's if/elif chain over the command text
renderer_of(cmd) ==
    IF Contains(<<"s", "t", "a", "t", "u", "s">>, cmd) THEN "simulate_status"
    ELSE IF Contains(<<"l", "o", "g">>, cmd) THEN "simulate_log"
    ELSE IF Contains(<<"b", "r", "a", "n", "c", "h">>, cmd) THEN "simulate_branch_list"
    ELSE IF Contains(<<"d", "i", "f", "f">>, cmd) THEN "simulate_diff"
    ELSE "none"

simulate_status(r) ==
    <<[ev |-> "on_branch", branch |-> r.current_branch],
      [ev |-> "up_to_date", with |-> "origin/main"],
      [ev |-> "nothing_to_commit"]>>

\* simulate_log, for a current branch that exists
simulate_log(r, h) ==
    CommitLines(Reverse(LastN(h[Lookup(r.branches, r.current_branch).commits], 5)))

simulate_branch_list(r) ==
    [k \in 1..Len(r.branches) |->
        [ev |-> "branch", name |-> r.branches[k].key,
         current |-> (r.branches[k].key = r.current_branch)]]

\* simulate_diff's body is its docstring alone
simulate_diff == <<>>

\* practice_mode, before its loop
practice_mode ==
    /\ pc = "practice_mode"
    /\ LET c == typewriter(print(Console(out, pauses), [ev |-> "practice"]),
                           animator, "Try executing Git commands yourself!")
       IN  out' = c.out /\ pauses' = c.pauses
    /\ frame' = [frame EXCEPT !.cmd_i = 1]
    /\ pc' = "practice_command"
    /\ UNCHANGED <<in_course, argv, repo, heap, animator, lessons_completed, inputs,
                   raised, exc>>

\* one turn of practice_mode's loop: the command, the acknowledgement read
\* and the renderer
practice_command ==
    /\ pc = "practice_command"
    /\ frame.cmd_i <= Len(commands_to_practice)
    /\ \E eof \in BOOLEAN :
        LET cmd == commands_to_practice[frame.cmd_i]
            o1  == Append(out, [ev |-> "practice_command", i |-> frame.cmd_i])
            f   == renderer_of(cmd)
        IN  IF eof
            THEN Raise("EOFError", o1) /\ UNCHANGED frame
            ELSE IF f = "simulate_log" /\ ~HasKey(repo.branches, repo.current_branch)
            THEN Raise("KeyError", o1) /\ UNCHANGED frame
            ELSE /\ out' = o1 \o (CASE f = "simulate_status" -> simulate_status(repo)
                                    [] f = "simulate_log" -> simulate_log(repo, heap)
                                    [] f = "simulate_branch_list" -> simulate_branch_list(repo)
                                    [] f = "simulate_diff" -> simulate_diff
                                    [] OTHER -> <<>>)
                 /\ frame' = [frame EXCEPT !.cmd_i = @ + 1]
                 /\ UNCHANGED <<pc, in_course, raised, exc>>
    /\ UNCHANGED <<argv, repo, heap, animator, lessons_completed, pauses, inputs>>

\* practice_mode returns
practice_mode_returned ==
    /\ pc = "practice_command"
    /\ frame.cmd_i > Len(commands_to_practice)
    /\ pc' = "show_progress"
    /\ UNCHANGED <<in_course, argv, repo, heap, animator, lessons_completed, frame,
                   out, pauses, inputs, raised, exc>>

\* ------------------------------------------------ the end of the full course

\* show_progress: "Lessons completed: c/t" and a bar of 20 cells
show_progress ==
    /\ pc = "show_progress"
    /\ out' = Append(out, [ev        |-> "progress",
                           completed |-> lessons_completed,
                           total     |-> total_lessons,
                           filled    |-> FloatMulFloor(lessons_completed, total_lessons,
                                                       progress_bar_length)])
    /\ pc' = "congratulations"
    /\ UNCHANGED <<in_course, argv, repo, heap, animator, lessons_completed, frame,
                   pauses, inputs, raised, exc>>

\* run_full_course: `if quiz_score >= 2`
excellent_above_two(quiz_score) == quiz_score > 2

excellent(quiz_score) == quiz_score >= 2

\* run_full_course's closing message; the try block ends and main returns
congratulations ==
    /\ pc = "congratulations"
    /\ out' = out \o <<[ev |-> "congratulations"]>>
                  \o (IF excellent(frame.quiz_score) THEN <<[ev |-> "excellent"]>> ELSE <<>>)
                  \o <<[ev |-> "next_steps"]>>
    /\ in_course' = FALSE
    /\ pc' = "done"
    /\ UNCHANGED <<argv, repo, heap, animator, lessons_completed, frame, pauses,
                   inputs, raised, exc>>

\* the user's interrupt (SIGINT) arrives while the program runs
KeyboardInterrupt ==
    /\ pc \notin {"start", "done", "crashed"}
    /\ Raise("KeyboardInterrupt", out)
    /\ UNCHANGED <<argv, repo, heap, animator, lessons_completed, frame, pauses, inputs>>

Next ==
    \/ main
    \/ welcome
    \/ lesson_init
    \/ lesson_init_created
    \/ lesson_add_commit
    \/ lesson_add_commit_staged
    \/ lesson_branching
    \/ lesson_branching_commit
    \/ lesson_branching_shown
    \/ lesson_push
    \/ push_animation_upload
    \/ progress_bar_frame
    \/ progress_bar_end
    \/ interactive_quiz
    \/ quiz_question
    \/ quiz_score_returned
    \/ practice_mode
    \/ practice_command
    \/ practice_mode_returned
    \/ show_progress
    \/ congratulations
    \/ KeyboardInterrupt

Spec == Init /\ [][Next]_vars

\* ---------------------------------------------- progress_bar, called alone
\* GitAnimator(speed).progress_bar(steps, ...) for every step count up to
\* MaxSteps, as PushAnimation.animate and any other caller may call it.

InitBar ==
    /\ pc = "progress_bar"
    /\ in_course = FALSE
    /\ argv = <<>>
    /\ repo = GitRepository("my-project")
    /\ heap = <<>>
    /\ animator \in {GitAnimator(DefaultSpeed), GitAnimator(FastSpeed)}
    /\ lessons_completed = 0
    /\ frame \in {[NoFrame EXCEPT !.steps = n, !.ret = "done"] : n \in 0..MaxSteps}
    /\ out = ClassBodyOutput
    /\ pauses = {}
    /\ inputs = <<>>
    /\ raised = "none"
    /\ exc = "none"

NextBar == progress_bar_frame \/ progress_bar_end

SpecBar == InitBar /\ [][NextBar]_vars

\* ---------------------------------------- branch_visualization, called alone
\* GitAnimator().branch_visualization(repo) for the repositories with the
\* lessons' branches and up to MaxCommits commits on each.

VizCommits == {Commit(h, "Initial commit", Author, t) : h \in Hashes, t \in Timestamps}

CommitLists == UNION {[1..n -> VizCommits] : n \in 0..MaxCommits}

InitViz ==
    /\ pc = "branch_visualization"
    /\ in_course = FALSE
    /\ argv = <<>>
    /\ \E names \in {<<>>, <<"main">>, <<"main", "feature-auth">>} :
       \E h \in [1..Len(names) -> CommitLists] :
       \E current \in {"main", "feature-auth"} :
          /\ heap = h
          /\ repo = [GitRepository("my-project") EXCEPT
                        !.branches = [j \in 1..Len(names) |->
                                        [key |-> names[j],
                                         val |-> Branch(names[j], j, names[j] = "main")]],
                        !.current_branch = current,
                        !.is_initialized = Len(names) > 0]
    /\ animator = GitAnimator(DefaultSpeed)
    /\ lessons_completed = 0
    /\ frame = NoFrame
    /\ out = ClassBodyOutput
    /\ pauses = {}
    /\ inputs = <<>>
    /\ raised = "none"
    /\ exc = "none"

branch_visualization_call ==
    /\ pc = "branch_visualization"
    /\ out' = out \o branch_visualization(repo, heap)
    /\ pc' = "done"
    /\ UNCHANGED <<in_course, argv, repo, heap, animator, lessons_completed, frame,
                   pauses, inputs, raised, exc>>

NextViz == branch_visualization_call

SpecViz == InitViz /\ [][NextViz]_vars
\* ------------------------------------------------------------------ claims

LessonArgv(n) == <<"--lesson", IntText(n)>>

MainCommits == heap[Lookup(repo.branches, "main").commits]

FeatureCommits == heap[Lookup(repo.branches, "feature-auth").commits]

\* the run of main() is over and no interrupt cut it short
RunOver == pc \in {"done", "crashed"} /\ raised # "KeyboardInterrupt"

\* the documented post-condition of lesson n run alone on a fresh system
LessonPostcondition(n) ==
    CASE n = 1 -> /\ Keys(repo.branches) = <<"main">>
                  /\ MainCommits = <<>>
                  /\ Lookup(repo.branches, "main").is_current
                  /\ repo.is_initialized
      [] n = 2 -> /\ repo.working_files = files
                  /\ repo.staged_files = files
                  /\ HasKey(repo.branches, "main")
                  /\ Len(MainCommits) = 1
      [] n = 3 -> /\ HasKey(repo.branches, "main")
                  /\ HasKey(repo.branches, "feature-auth")
                  /\ repo.current_branch = "feature-auth"
                  /\ Len(FeatureCommits) = Len(MainCommits) + 2
                  /\ SubSeq(FeatureCommits, 1, Len(MainCommits)) = MainCommits
      [] n = 4 -> /\ HasKey(repo.branches, repo.current_branch)
                  /\ \E k \in 1..Len(out) :
                        /\ out[k].ev = "pushing"
                        /\ out[k].commits =
                             Len(heap[Lookup(repo.branches, repo.current_branch).commits])

\* C1: for every N in 1..4, `--lesson N` on a fresh system completes lesson N,
\* takes lessons_completed from 0 to 1 and leaves the repository in that
\* lesson's documented post-condition.
C1_EveryLessonRunsAlone ==
    \A n \in 1..4 :
        (argv = LessonArgv(n) /\ RunOver) =>
            /\ pc = "done"
            /\ exc = "none"
            /\ lessons_completed = 1
            /\ LessonPostcondition(n)

\* C2: lesson 3 run while the branch mapping has no `main` fails with a
\* KeyError: `main` and `feature-auth` are never created, current_branch stays
\* as it was and lessons_completed is not incremented.
C2_BranchingWithoutMainFails ==
    (argv = LessonArgv(3) /\ pc # "start") =>
        /\ ~HasKey(repo.branches, "main")
        /\ ~HasKey(repo.branches, "feature-auth")
        /\ repo.current_branch = "main"
        /\ lessons_completed = 0
        /\ pc \in {"lesson_branching", "crashed"}
        /\ (pc = "crashed" /\ raised # "KeyboardInterrupt") =>
                (raised = "KeyError" /\ exc = "KeyError")

\* lesson 3 has run without `main` and ended in the KeyError
C2_Witness ==
    /\ argv = LessonArgv(3)
    /\ pc = "crashed"
    /\ exc = "KeyError"
    /\ out[Len(out)].ev = "typewriter"

\* C3: `--lesson N` for an integer N outside 1..4 prints the range message,
\* runs no lesson and leaves the repository and lessons_completed as
\* constructed.
C3_OutOfRangeLessonChangesNothing ==
    \A n \in (0 - MaxLessonArg)..MaxLessonArg :
        (n \notin 1..4 /\ argv = LessonArgv(n) /\ pc # "start") =>
            /\ pc = "done"
            /\ exc = "none"
            /\ out = Append(ClassBodyOutput,
                            [ev |-> "lesson_not_found", n |-> n, available |-> 4])
            /\ repo = GitRepository("my-project")
            /\ heap = <<>>
            /\ lessons_completed = 0
            /\ pauses = {}

\* main() has returned from `--lesson 0` and from nothing else
C3_Witness ==
    /\ argv = LessonArgv(0)
    /\ pc = "done"
    /\ out[Len(out)].ev = "lesson_not_found"

\* the step headings printed so far, in order
IsStep(e) == e.ev \in {"welcome", "lesson", "quiz", "practice", "progress", "congratulations"}

StepName(e) ==
    IF e.ev = "lesson" THEN (CASE e.n = 1 -> "lesson 1" [] e.n = 2 -> "lesson 2"
                               [] e.n = 3 -> "lesson 3" [] OTHER -> "lesson 4")
    ELSE e.ev

Steps == LET st == SelectSeq(out, IsStep) IN [k \in 1..Len(st) |-> StepName(st[k])]

Printed(ev) == \E k \in 1..Len(out) : out[k].ev = ev

\* a full run has reached its end without any exception
CourseCompleted ==
    /\ Len(argv) = 0 \/ argv = <<"--fast">>
    /\ pc = "done"
    /\ raised = "none"

\* C4: a full run in fast mode with both quiz inputs `b` goes through welcome,
\* lessons 1 to 4, quiz, practice, progress summary and closing message in
\* that order, reports the score 2/2 and 4/10 lessons, and prints the
\* excellent-performance line; that line is printed exactly when the quiz
\* score is at least 2.
C4_FastFullRun ==
    /\ (CourseCompleted /\ argv = <<"--fast">> /\ inputs = <<<<"b">>, <<"b">>>>) =>
          /\ Steps = <<"welcome", "lesson 1", "lesson 2", "lesson 3", "lesson 4",
                       "quiz", "practice", "progress", "congratulations">>
          /\ \E k \in 1..Len(out) :
                out[k] = [ev |-> "quiz_score", score |-> 2, of |-> 2]
          /\ \E k \in 1..Len(out) :
                out[k].ev = "progress" /\ out[k].completed = 4 /\ out[k].total = 10
          /\ Printed("excellent")
          /\ \A j, k \in 1..Len(out) :
                (out[j].ev = "congratulations" /\ out[k].ev = "excellent") => j < k
    /\ CourseCompleted =>
          (Printed("excellent") <=>
              \E k \in 1..Len(out) : out[k].ev = "quiz_score" /\ out[k].score >= 2)

\* the fast full run with the answers b, b has ended
C4_Witness ==
    /\ CourseCompleted
    /\ argv = <<"--fast">>
    /\ inputs = <<<<"b">>, <<"b">>>>
    /\ out[Len(out)].ev = "next_steps"

BarFrames == SelectSeq(out, LAMBDA e : e.ev = "bar")

\* C5: progress_bar(N, label) with N > 0 emits exactly N+1 frames, frame i
\* showing floor(100*i/N) percent and the last one 100%, and terminates; with
\* N = 0 it raises no division error and terminates.
C5_ProgressBarFrames ==
    /\ \A k \in 1..Len(BarFrames) : BarFrames[k].percent = (100 * (k - 1)) \div frame.steps
    /\ pc # "progress_bar" =>
          /\ pc = "done"
          /\ exc = "none"
          /\ frame.steps > 0 =>
                /\ Len(BarFrames) = frame.steps + 1
                /\ BarFrames[Len(BarFrames)].percent = 100

\* the pause each animator method makes at speed 1.0
BasePause(kind) ==
    CASE kind = "typewriter" -> TypewriterBase
      [] kind = "push_animation" -> BaseDelay \div 3
      [] OTHER -> BaseDelay

AnimatorPauses ==
    {p \in pauses : p.kind \in {"typewriter", "progress_bar", "commit_flow", "push_animation"}}

\* C6: in fast mode (speed 3.0) every pause of typewriter, progress_bar,
\* commit_flow and push_animation is its base value divided by 3.
C6_FastPausesAreAThird ==
    argv = <<"--fast">> =>
        \A p \in AnimatorPauses : p.dur * FastSpeed = BasePause(p.kind)

\* a typed line is the key `b` once lowercased and trimmed: one b or B, and
\* nothing but blanks around it
IsAnswerB(line) ==
    \E k \in 1..Len(line) :
        /\ line[k] \in {"b", "B"}
        /\ \A j \in 1..Len(line) : j # k => line[j] = " "

\* the questions answered so far whose answer was right / wrong
RightAnswers == {k \in 1..Len(inputs) : IsAnswerB(inputs[k])}

WrongAnswers == {k \in 1..Len(inputs) : ~IsAnswerB(inputs[k])}

Verdicts == SelectSeq(out, LAMBDA e : e.ev \in {"correct", "incorrect", "explanation"})

\* C7: the quiz score is the number of questions whose input, lowercased and
\* trimmed, is that question's key (both keys are `b`): all right gives the
\* question count, each wrong answer costs exactly one, the score stays in
\* 0..N, the returned score is the one reported, and every answered question
\* gets its verdict followed by its explanation line.
C7_QuizScore ==
    /\ frame.score = Cardinality(RightAnswers)
    /\ frame.score = Len(inputs) - Cardinality(WrongAnswers)
    /\ frame.score \in 0..Len(questions)
    /\ Len(inputs) <= Len(questions)
    /\ \A k \in 1..Len(out) :
          out[k].ev = "quiz_score" =>
             /\ Len(inputs) = Len(questions)
             /\ out[k].score = Cardinality(RightAnswers)
             /\ out[k].of = Len(questions)
             /\ (WrongAnswers = {} => out[k].score = Len(questions))
    /\ Len(Verdicts) = 2 * Len(inputs)
    /\ \A k \in 1..Len(inputs) :
          /\ Verdicts[2 * k - 1] =
                [ev |-> IF k \in RightAnswers THEN "correct" ELSE "incorrect", i |-> k]
          /\ Verdicts[2 * k] = [ev |-> "explanation", i |-> k]

\* the quiz has been answered ` B` (right once lowercased and trimmed) and
\* `a` (wrong), and its score of 1 reported
C7_Witness ==
    /\ inputs = <<<<" ", "B">>, <<"a">>>>
    /\ frame.quiz_score = 1
    /\ Printed("quiz_score")

InFullRun == Len(argv) = 0 \/ argv = <<"--fast">>

\* C8: in a full run an interrupt raised while the lessons, the quiz or
\* practice execute ends in the interrupted message and a normal return, any
\* other exception they raise is caught and printed as the generic error
\* message, and no exception leaves run_full_course.
C8_FullRunCatchesEverything ==
    InFullRun =>
        /\ pc # "crashed"
        /\ exc = "none"
        /\ raised = "KeyboardInterrupt" =>
              (pc = "done" /\ out[Len(out)] = [ev |-> "interrupted"])
        /\ raised \notin {"none", "KeyboardInterrupt"} =>
              (pc = "done" /\ out[Len(out)] = [ev |-> "error", exc |-> raised])

\* the interrupt arrived at the second quiz prompt of a full run
C8_Witness ==
    /\ InFullRun
    /\ raised = "KeyboardInterrupt"
    /\ Len(inputs) = 1
    /\ frame.i = 2
    /\ ~Printed("quiz_score")

\* C9: once lesson 3 has run after lessons 1 and 2, feature-auth holds main's
\* commits as they were when the branch was made, followed by the two new
\* commits in order; main's commits are untouched by the appends; and the
\* current branch is feature-auth.
C9_FeatureBranchIsASnapshot ==
    (InFullRun /\ HasKey(repo.branches, "feature-auth")) =>
        /\ Len(MainCommits) = 1
        /\ MainCommits[1].message = "Initial commit"
        /\ Lookup(repo.branches, "feature-auth").commits
              # Lookup(repo.branches, "main").commits
        /\ repo.current_branch = "feature-auth"
        /\ FeatureCommits \o frame.feature_commits =
              MainCommits \o SubSeq(FeatureCommits \o frame.feature_commits, 2, 3)
        /\ lessons_completed >= 3 =>
              /\ Len(FeatureCommits) = 3
              /\ FeatureCommits[1] = MainCommits[1]
              /\ FeatureCommits[2].message = "Add login functionality"
              /\ FeatureCommits[3].message = "Add password validation"

\* lesson 3 has run to its end in a full run
C9_Witness ==
    /\ InFullRun
    /\ lessons_completed = 3
    /\ HasKey(repo.branches, "feature-auth")
    /\ Len(FeatureCommits) = 3
    /\ pc = "lesson_push"

\* what branch_visualization printed after the "Repository:" heading
VizLines ==
    LET at == CHOOSE k \in 1..Len(out) : out[k].ev = "repository"
    IN  SubSeq(out, at + 1, Len(out))

\* the place in VizLines of the j-th branch heading
HeadingAt(j) ==
    CHOOSE p \in 1..Len(VizLines) :
        /\ VizLines[p].ev = "branch"
        /\ Cardinality({q \in 1..p : VizLines[q].ev = "branch"}) = j

Min(a, b) == IF a <= b THEN a ELSE b

\* C10: branch_visualization lists every branch in insertion order, marks
\* exactly the branch named current_branch as current, and under each branch
\* prints its commits most recent first: the last 3 of more than 3, all of 3
\* or fewer.
C10_BranchVisualization ==
    (pc = "done" /\ Printed("repository")) =>
        LET n == Len(repo.branches)
            headings == SelectSeq(VizLines, LAMBDA e : e.ev = "branch")
        IN  /\ Len(headings) = n
            /\ \A j \in 1..n :
                  LET commits == heap[repo.branches[j].val.commits]
                      shown   == Min(Len(commits), 3)
                      from    == HeadingAt(j)
                      to      == IF j < n THEN HeadingAt(j + 1) - 1 ELSE Len(VizLines)
                  IN  /\ headings[j].name = repo.branches[j].key
                      /\ headings[j].current =
                            (repo.branches[j].key = repo.current_branch)
                      /\ to - from = shown
                      /\ \A k \in 1..shown :
                            VizLines[from + k] =
                               [ev      |-> "commit_line",
                                hash    |-> commits[Len(commits) - k + 1].hash,
                                message |-> commits[Len(commits) - k + 1].message]

\* a repository whose current branch has more than 3 commits, not all alike,
\* and whose other branch has at most 3 has been visualized
C10_Witness ==
    /\ pc = "done"
    /\ Printed("repository")
    /\ Len(repo.branches) = 2
    /\ repo.current_branch = "feature-auth"
    /\ Len(FeatureCommits) > 3
    /\ FeatureCommits[1] # FeatureCommits[Len(FeatureCommits)]
    /\ Len(MainCommits) = 2


\* --------------------------------------------------------------- claim C11

\* the position of the k-th practice command's prompt in the output
PracticeAt(k) ==
    CHOOSE p \in 1..Len(out) : out[p] = [ev |-> "practice_command", i |-> k]

\* the k-th practice command has been acknowledged and simulated
Simulated(k) ==
    /\ InFullRun
    /\ frame.cmd_i > k
    /\ \E p \in 1..Len(out) : out[p] = [ev |-> "practice_command", i |-> k]

RendererEvents ==
    {"on_branch", "up_to_date", "nothing_to_commit", "commit_line", "branch", "diff_block"}

\* the block the k-th command's renderer is to print: status, log, branch
\* list, diff
ExpectedBlock(k) ==
    LET commits == heap[Lookup(repo.branches, repo.current_branch).commits]
        shown   == Min(Len(commits), 5)
    IN  CASE k = 1 -> <<[ev |-> "on_branch", branch |-> repo.current_branch],
                        [ev |-> "up_to_date", with |-> "origin/main"],
                        [ev |-> "nothing_to_commit"]>>
          [] k = 2 -> [j \in 1..shown |->
                          [ev      |-> "commit_line",
                           hash    |-> commits[Len(commits) - j + 1].hash,
                           message |-> commits[Len(commits) - j + 1].message]]
          [] k = 3 -> [j \in 1..Len(repo.branches) |->
                          [ev      |-> "branch",
                           name    |-> repo.branches[j].key,
                           current |-> (repo.branches[j].key = repo.current_branch)]]
          [] OTHER -> <<[ev |-> "diff_block"]>>

\* the output after the k-th practice prompt is exactly the expected block
BlockPrintedAfter(k) ==
    LET p == PracticeAt(k)
        e == ExpectedBlock(k)
        q == p + Len(e)
    IN  /\ q <= Len(out)
        /\ SubSeq(out, p + 1, q) = e
        /\ q < Len(out) => out[q + 1].ev \notin RendererEvents

\* C11: in practice mode each of the four commands, once acknowledged, is
\* followed by the output of exactly one renderer, the one of the first
\* keyword (status, log, branch, diff) its text contains: the status block
\* with the current branch name, the last up-to-5 commits of the current
\* branch most recent first, the branch list with its current marker, and the
\* fixed diff block.
C11_PracticeRenderers ==
    \A k \in 1..Len(commands_to_practice) : Simulated(k) => BlockPrintedAfter(k)

=============================================================================
